---- MODULE Spec2Model ----
(***************************************************************************)
(* cargo-fmt-toml (src/src/main.rs): the manifest formatter.               *)
(*                                                                         *)
(* A manifest text is a sequence of lines; a document is the ordered tree  *)
(* toml_edit builds from it (tables with a position, entries in insertion  *)
(* order).  Parse and Serialize follow toml_edit's parser and Display; the *)
(* formatter's own functions are translated from main.rs.                  *)
(***************************************************************************)
EXTENDS Integers, Sequences, FiniteSets, TLC

VARIABLES
    args,           \* FmtArgs: [dry_run, check, quiet]
    disk,           \* the manifest files: sequence of [readable, text]
    orig,           \* the files as they were when the run began (history)
    pc,             \* position inside format_manifest / fmt_toml
    doc,            \* the DocumentMut being transformed
    before,         \* doc as it was before the step last executed (history)
    changes,        \* format_manifest's change counter
    ret,            \* return value of the step last executed
    pass,           \* 1 for the first run of the tool on the file, 2 for the rerun
    first,          \* what the first run ended with: [changes, text] (history)
    idx,            \* fmt_toml: index of the manifest being processed
    total_changes,  \* fmt_toml: total_changes
    files_changed,  \* fmt_toml: files_changed
    log,            \* fmt_toml: per manifest, how format_manifest ended (history)
    exit_code,      \* the process's exit code, -1 while it runs
    table,          \* table-level harness: the table handed to the function
    table0          \* table-level harness: the table as first drawn (history)

vars == <<args, disk, orig, pc, doc, before, changes, ret, pass, first, idx,
          total_changes, files_changed, log, exit_code, table, table0>>

(***************************************************************************)
(* Bounds of the model.                                                    *)
(***************************************************************************)
MaxBlocks == 3      \* blocks (header + body) per generated manifest
NumManifests == 2   \* manifests discovered by one batch run
MaxKeys == 3        \* entries of a table handed to the table-level functions

(***************************************************************************)
(* Values, items, tables (toml_edit::{Value, Item, Table, ArrayOfTables}). *)
(***************************************************************************)
NoPos == 0 - 1          \* Table::position() = None
DefaultDecor == 0 - 1   \* Decor with no prefix set: the encoder's default

Scalar(s) == [vk |-> "scalar", s |-> s, kvs |-> <<>>]
InlineTable(kvs) == [vk |-> "inline", s |-> "", kvs |-> kvs]
\* an array written over several lines whose element line begins with '['
MlArray == [vk |-> "mlarray", s |-> "", kvs |-> <<>>]
NoVal == [vk |-> "none", s |-> "", kvs |-> <<>>]

ValueItem(v) == [k |-> "value", v |-> v]
NoneItem == [k |-> "none"]
NewTable == [k |-> "table", items |-> <<>>, implicit |-> FALSE, dotted |-> FALSE,
             pos |-> NoPos, decor |-> DefaultDecor]
ImplicitTable(dotted) == [NewTable EXCEPT !.implicit = TRUE, !.dotted = dotted]
ArrayOfTables(tabs) == [k |-> "aot", tabs |-> tabs]
Entry(key, item, pre) == [key |-> key, item |-> item, pre |-> pre]

\* Table::iter().map(|(k, _)| k.to_string()).collect()
Keys(items) == [i \in 1..Len(items) |-> items[i].key]
IndexOf(items, key) ==
    IF \E i \in 1..Len(items) : items[i].key = key
    THEN CHOOSE i \in 1..Len(items) : items[i].key = key
    ELSE 0
\* Table::contains_key
ContainsKey(items, key) == IndexOf(items, key) # 0
\* Table::get
Get(items, key) == IF ContainsKey(items, key) THEN items[IndexOf(items, key)].item ELSE NoneItem
\* Table::remove: shift_remove, the other entries keep their order
Remove(items, key) == SelectSeq(items, LAMBDA e : e.key # key)
\* Table::insert(&str, Item): a new Key (no decor) appended, or the item replaced in place
Insert(items, key, item) ==
    IF ContainsKey(items, key)
    THEN [items EXCEPT ![IndexOf(items, key)].item = item]
    ELSE Append(items, Entry(key, item, 0))
\* Item::as_value
IsValue(item) == item.k = "value"
\* doc.get_mut(k).and_then(|t| t.as_table_mut()) finds a table
IsTableAt(items, key) == Get(items, key).k = "table"

(***************************************************************************)
(* Manifest text: a sequence of lines.                                     *)
(*   hdr    [a.b.c]            aot    [[a]]                                *)
(*   kv     key = value  (path of length 2: a dotted key a.b = value)      *)
(*   mlopen key = [      mlelem  ["x"],      mlclose  ]                    *)
(*   blank                                                                 *)
(***************************************************************************)
Line(t, path, val) == [t |-> t, path |-> path, val |-> val]
Hdr(path) == Line("hdr", path, NoVal)
Aot(path) == Line("aot", path, NoVal)
Kv(key, val) == Line("kv", <<key>>, val)
DottedKv(a, b, val) == Line("kv", <<a, b>>, val)
Blank == Line("blank", <<>>, NoVal)
MlOpen(key) == Line("mlopen", <<key>>, NoVal)
MlElem == Line("mlelem", <<>>, NoVal)
MlClose == Line("mlclose", <<>>, NoVal)

(***************************************************************************)
(* str::parse::<DocumentMut>(): toml_edit's parser state machine           *)
(* (descend_path, on_keyval, start_table, start_array_table,               *)
(* finalize_table).                                                        *)
(***************************************************************************)
RECURSIVE GetAt(_, _)
GetAt(tab, path) ==
    IF path = <<>> THEN tab
    ELSE LET it == Get(tab.items, Head(path))
         IN GetAt(IF it.k = "aot" THEN it.tabs[Len(it.tabs)] ELSE it, Tail(path))

RECURSIVE SetAt(_, _, _)
SetAt(tab, path, new) ==
    IF path = <<>> THEN new
    ELSE LET i == IndexOf(tab.items, Head(path))
             it == tab.items[i].item
         IN [tab EXCEPT !.items[i].item =
                IF it.k = "aot"
                THEN [it EXCEPT !.tabs[Len(it.tabs)] = SetAt(@, Tail(path), new)]
                ELSE SetAt(it, Tail(path), new)]

\* descend_path: walks path from tab, creating implicit tables; [ok, t]
RECURSIVE descend_path(_, _, _)
descend_path(tab, path, dotted) ==
    IF path = <<>> THEN [ok |-> TRUE, t |-> tab]
    ELSE LET key == Head(path)
             items == IF ContainsKey(tab.items, key) THEN tab.items
                      ELSE Append(tab.items, Entry(key, ImplicitTable(dotted), 0))
             i == IndexOf(items, key)
             it == items[i].item
         IN CASE it.k = "value" -> [ok |-> FALSE, t |-> tab]
              [] it.k = "aot" ->
                    LET n == Len(it.tabs)
                        sub == descend_path(it.tabs[n], Tail(path), dotted)
                    IN [ok |-> sub.ok,
                        t |-> [tab EXCEPT !.items =
                                 [items EXCEPT ![i].item.tabs[n] = sub.t]]]
              [] OTHER ->
                    IF dotted /\ ~it.implicit THEN [ok |-> FALSE, t |-> tab]
                    ELSE LET sub == descend_path(it, Tail(path), dotted)
                         IN [ok |-> sub.ok,
                             t |-> [tab EXCEPT !.items = [items EXCEPT ![i].item = sub.t]]]

ParseInit == [root |-> NewTable, cur |-> NewTable, path |-> <<>>, isArr |-> FALSE,
              pos |-> 0, pend |-> 0, ok |-> TRUE, open |-> <<>>]
ParseFail(S) == [S EXCEPT !.ok = FALSE]

Pre(path) == SubSeq(path, 1, Len(path) - 1)
Last(path) == path[Len(path)]

\* the table a header or key path names: [ok, root, parent], root being the
\* tree with the implicit tables descend_path created
Locate(d, pre) == [ok |-> d.ok, root |-> d.t,
                   parent |-> IF d.ok THEN GetAt(d.t, pre) ELSE NewTable]
\* the tree with `items` as the entries of the table at pre
WithItems(loc, pre, items) == SetAt(loc.root, pre, [loc.parent EXCEPT !.items = items])

\* on_keyval: key = value in the current table (dotted keys descend first)
KeyvalAt(S, kpath, val, loc) ==
    IF ~loc.ok \/ loc.parent.dotted = (Pre(kpath) = <<>>)
              \/ ContainsKey(loc.parent.items, Last(kpath))
    THEN ParseFail(S)
    ELSE [S EXCEPT !.cur = WithItems(loc, Pre(kpath),
                              Append(loc.parent.items,
                                     Entry(Last(kpath), ValueItem(val), S.pend))),
                   !.pend = 0]
on_keyval(S, kpath, val) ==
    KeyvalAt(S, kpath, val, Locate(descend_path(S.cur, Pre(kpath), TRUE), Pre(kpath)))

\* finalize_table: the table under construction goes into the tree
FinalizeAt(S, loc, it) ==
    IF ~loc.ok THEN ParseFail(S)
    ELSE IF S.isArr
    THEN IF it.k \notin {"none", "aot"} THEN ParseFail(S)
         ELSE [S EXCEPT
                 !.root = WithItems(loc, Pre(S.path),
                    Insert(loc.parent.items, Last(S.path),
                           ArrayOfTables(Append(IF it.k = "aot" THEN it.tabs ELSE <<>>,
                                                S.cur)))),
                 !.cur = NewTable, !.path = <<>>]
    ELSE IF it.k = "none" \/ (it.k = "table" /\ it.implicit)
         THEN [S EXCEPT
                 !.root = WithItems(loc, Pre(S.path),
                                    Insert(loc.parent.items, Last(S.path), S.cur)),
                 !.cur = NewTable, !.path = <<>>]
         ELSE ParseFail(S)
FinalizeIn(S, loc) ==
    FinalizeAt(S, loc, IF loc.ok THEN Get(loc.parent.items, Last(S.path)) ELSE NoneItem)
finalize_table(S) ==
    IF S.path = <<>> THEN [S EXCEPT !.root = S.cur, !.cur = NewTable]
    ELSE FinalizeIn(S, Locate(descend_path(S.root, Pre(S.path), FALSE), Pre(S.path)))

\* start_table: an implicit table of that name is taken out of its parent and
\* becomes the table under construction
StartTableAt(S, path, loc, it) ==
    IF ~loc.ok THEN ParseFail(S)
    ELSE IF it.k = "none" \/ (it.k = "table" /\ it.implicit /\ ~it.dotted)
    THEN [S EXCEPT
            !.root = WithItems(loc, Pre(path), Remove(loc.parent.items, Last(path))),
            !.cur = [(IF it.k = "none" THEN NewTable ELSE it) EXCEPT
                        !.implicit = FALSE, !.dotted = FALSE,
                        !.pos = S.pos + 1, !.decor = S.pend],
            !.pos = S.pos + 1, !.pend = 0, !.isArr = FALSE, !.path = path]
    ELSE ParseFail(S)
StartTableIn(S, path, loc) ==
    StartTableAt(S, path, loc,
                 IF loc.ok THEN Get(loc.parent.items, Last(path)) ELSE NoneItem)
StartTable(S, path) ==
    IF ~S.ok THEN S
    ELSE StartTableIn(S, path, Locate(descend_path(S.root, Pre(path), FALSE), Pre(path)))
\* on_std_header: finalize_table, then start_table
start_table(S, path) == StartTable(finalize_table(S), path)

\* start_array_table: the array is entered in its parent at the header
StartArrayAt(S, path, loc, it) ==
    IF ~loc.ok \/ it.k \notin {"none", "aot"} THEN ParseFail(S)
    ELSE [S EXCEPT
            !.root = IF it.k = "aot" THEN loc.root
                     ELSE WithItems(loc, Pre(path),
                             Insert(loc.parent.items, Last(path), ArrayOfTables(<<>>))),
            !.cur = [NewTable EXCEPT !.pos = S.pos + 1, !.decor = S.pend],
            !.pos = S.pos + 1, !.pend = 0, !.isArr = TRUE, !.path = path]
StartArrayIn(S, path, loc) ==
    StartArrayAt(S, path, loc,
                 IF loc.ok THEN Get(loc.parent.items, Last(path)) ELSE NoneItem)
StartArray(S, path) ==
    IF ~S.ok THEN S
    ELSE StartArrayIn(S, path, Locate(descend_path(S.root, Pre(path), FALSE), Pre(path)))
\* on_array_header: finalize_table, then start_array_table
start_array_table(S, path) == StartArray(finalize_table(S), path)

\* one line of input; S.open holds the key of an array left open by "key = ["
ParseLine(S, line) ==
    IF ~S.ok THEN S
    ELSE IF S.open # <<>>
    THEN CASE line.t \in {"mlelem", "blank"} -> S
           [] line.t = "mlclose" ->
                 on_keyval([S EXCEPT !.open = <<>>], S.open, MlArray)
           [] OTHER -> ParseFail(S)
    ELSE CASE line.t = "blank" -> [S EXCEPT !.pend = @ + 1]
           [] line.t = "kv" -> on_keyval(S, line.path, line.val)
           [] line.t = "hdr" -> start_table(S, line.path)
           [] line.t = "aot" -> start_array_table(S, line.path)
           [] line.t = "mlopen" -> [S EXCEPT !.open = line.path]
           [] OTHER -> ParseFail(S)

RECURSIVE ParseLines(_, _, _)
ParseLines(S, text, i) ==
    IF i > Len(text) THEN S ELSE ParseLines(ParseLine(S, text[i]), text, i + 1)

\* end of input: the last table is finalized; an array left open is an error
ParseEnd(S) == IF S.ok /\ S.open = <<>> THEN finalize_table(S) ELSE ParseFail(S)
ParseResult(F) == [ok |-> F.ok, root |-> F.root, trailing |-> F.pend]
\* [ok, root, trailing]: the DocumentMut, or a parse error
Parse(text) == ParseResult(ParseEnd(ParseLines(ParseInit, text, 1)))

(***************************************************************************)
(* DocumentMut::to_string(): toml_edit's Display.  Every non-dotted table  *)
(* is visited depth first, a table without a position taking the last      *)
(* position seen; the tables are written in position order (stable), each  *)
(* as its header followed by its own values.                               *)
(***************************************************************************)
RECURSIVE visit_nested_tables(_, _, _, _), VisitItems(_, _, _, _), VisitArray(_, _, _, _)
visit_nested_tables(tab, path, isArr, last) ==
    LET here == IF tab.dotted \/ tab.pos = NoPos THEN last ELSE tab.pos
        self == IF tab.dotted THEN <<>>
                ELSE << [pos |-> here, tab |-> tab, path |-> path, arr |-> isArr] >>
        rest == VisitItems(tab.items, path, 1, here)
    IN [list |-> self \o rest.list, last |-> rest.last]
VisitItems(items, path, i, last) ==
    IF i > Len(items) THEN [list |-> <<>>, last |-> last]
    ELSE LET e == items[i]
             r == CASE e.item.k = "table" ->
                         visit_nested_tables(e.item, Append(path, e.key), FALSE, last)
                    [] e.item.k = "aot" ->
                         VisitArray(e.item.tabs, Append(path, e.key), 1, last)
                    [] OTHER -> [list |-> <<>>, last |-> last]
             r2 == VisitItems(items, path, i + 1, r.last)
         IN [list |-> r.list \o r2.list, last |-> r2.last]
VisitArray(tabs, path, i, last) ==
    IF i > Len(tabs) THEN [list |-> <<>>, last |-> last]
    ELSE LET r == visit_nested_tables(tabs[i], path, TRUE, last)
             r2 == VisitArray(tabs, path, i + 1, r.last)
         IN [list |-> r.list \o r2.list, last |-> r2.last]

\* tables.sort_by_key(|&(id, _, _, _)| id): a stable sort
RECURSIVE InsertByPos(_, _)
InsertByPos(sorted, x) ==
    IF sorted = <<>> THEN <<x>>
    ELSE IF x.pos < Head(sorted).pos THEN <<x>> \o sorted
    ELSE <<Head(sorted)>> \o InsertByPos(Tail(sorted), x)
RECURSIVE SortByPos(_)
SortByPos(list) ==
    IF list = <<>> THEN <<>>
    ELSE InsertByPos(SortByPos(SubSeq(list, 1, Len(list) - 1)), list[Len(list)])

Blanks(n) == [i \in 1..n |-> Blank]

\* Table::get_values: the table's own values, dotted sub-tables flattened
RECURSIVE ValueLines(_, _)
ValueLines(items, prefix) ==
    IF items = <<>> THEN <<>>
    ELSE LET e == Head(items)
             here ==
               CASE e.item.k = "value" ->
                      Blanks(e.pre) \o
                      (IF e.item.v.vk = "mlarray"
                       THEN << Line("mlopen", Append(prefix, e.key), NoVal), MlElem, MlClose >>
                       ELSE << Line("kv", Append(prefix, e.key), e.item.v) >>)
                 [] e.item.k = "table" /\ e.item.dotted ->
                      ValueLines(e.item.items, Append(prefix, e.key))
                 [] OTHER -> <<>>
         IN here \o ValueLines(Tail(items), prefix)

\* visit_table over the sorted tables; isFirst is the encoder's first_table flag
RECURSIVE EncodeTables(_, _)
EncodeTables(list, isFirst) ==
    IF list = <<>> THEN <<>>
    ELSE LET x == Head(list)
             body == ValueLines(x.tab.items, <<>>)
             visible == x.arr \/ ~(x.tab.implicit /\ body = <<>>)
             header == x.path # <<>> /\ visible
             decor == IF x.tab.decor # DefaultDecor THEN x.tab.decor
                      ELSE IF isFirst THEN 0 ELSE 1
             head == IF header
                     THEN Blanks(decor) \o << IF x.arr THEN Aot(x.path) ELSE Hdr(x.path) >>
                     ELSE <<>>
             next == IF x.path = <<>> THEN (isFirst /\ body = <<>>)
                     ELSE (isFirst /\ ~header)
         IN head \o body \o EncodeTables(Tail(list), next)

Serialize(d) ==
    EncodeTables(SortByPos(visit_nested_tables(d.root, <<>>, FALSE, 0).list), TRUE)
        \o Blanks(d.trailing)

(***************************************************************************)
(* Vec<String>::sort(): keys compared as byte strings.                     *)
(***************************************************************************)
Bytes(key) ==
    CASE key = "B"     -> <<66>>
      [] key = "a"     -> <<97>>
      [] key = "ab"    -> <<97, 98>>
      [] key = "alpha" -> <<97, 108, 112, 104, 97>>
      [] key = "b"     -> <<98>>
      [] key = "mango" -> <<109, 97, 110, 103, 111>>
      [] key = "serde" -> <<115, 101, 114, 100, 101>>
      [] key = "zebra" -> <<122, 101, 98, 114, 97>>

\* a faulty comparison, shorter keys first: C5_SortedTable tells it from LexLeq
LexLeq_LengthFirst(x, y) == Len(x) <= Len(y)
RECURSIVE LexLeq(_, _)
LexLeq(x, y) ==
    IF x = <<>> THEN TRUE
    ELSE IF y = <<>> THEN FALSE
    ELSE IF Head(x) # Head(y) THEN Head(x) < Head(y)
    ELSE LexLeq(Tail(x), Tail(y))

RECURSIVE InsertKey(_, _)
InsertKey(sorted, key) ==
    IF sorted = <<>> THEN <<key>>
    ELSE IF LexLeq(Bytes(key), Bytes(Head(sorted))) THEN <<key>> \o sorted
    ELSE <<Head(sorted)>> \o InsertKey(Tail(sorted), key)
RECURSIVE SortKeys(_)
SortKeys(keys) ==
    IF keys = <<>> THEN <<>> ELSE InsertKey(SortKeys(Tail(keys)), Head(keys))

Contains(seq, x) == \E i \in 1..Len(seq) : seq[i] = x

(***************************************************************************)
(* collapse_table_entries (main.rs 310-352)                                *)
(***************************************************************************)
\* the inner loop: Some(inline table) when every child is a value
Convertible(inner) == \A i \in 1..Len(inner.items) : IsValue(inner.items[i].item)
\* a faulty conversion, children in reverse: C4_CollapseSafety tells it from ToInline
ToInline_Reversed(inner) ==
    InlineTable([i \in 1..Len(inner.items) |->
        <<inner.items[Len(inner.items) + 1 - i].key, inner.items[Len(inner.items) + 1 - i].item.v>>])
ToInline(inner) ==
    InlineTable([i \in 1..Len(inner.items) |-> <<inner.items[i].key, inner.items[i].item.v>>])

\* the first loop: the (key, inline) replacements, in key order
RECURSIVE Replacements(_, _)
Replacements(tab, i) ==
    IF i > Len(tab.items) THEN <<>>
    ELSE LET inner == Get(tab.items, Keys(tab.items)[i])
             here == IF inner.k = "table" /\ ~inner.dotted /\ Convertible(inner)
                     THEN << <<tab.items[i].key, ToInline(inner)>> >>
                     ELSE <<>>
         IN here \o Replacements(tab, i + 1)

\* the second loop: *item = Item::Value(..), or table.insert
RECURSIVE ApplyReplacements(_, _)
ApplyReplacements(items, repl) ==
    IF repl = <<>> THEN items
    ELSE ApplyReplacements(Insert(items, Head(repl)[1], ValueItem(Head(repl)[2])), Tail(repl))

collapse_table_entries(tab) ==
    LET repl == Replacements(tab, 1)
    IN [t |-> [tab EXCEPT !.items = ApplyReplacements(@, repl)], n |-> Len(repl)]

(***************************************************************************)
(* sort_table_in_place (main.rs 524-550)                                   *)
(***************************************************************************)
\* the re-insert loop shared by sort_table_in_place and format_package_section:
\* every entry removed into a map, then inserted in the order of keys
RECURSIVE Reinsert(_, _, _)
Reinsert(items, entries, keys) ==
    IF keys = <<>> THEN items
    ELSE Reinsert(IF ContainsKey(entries, Head(keys))
                  THEN Insert(items, Head(keys), Get(entries, Head(keys)))
                  ELSE items,
                  Remove(entries, Head(keys)), Tail(keys))

RECURSIVE RemoveAll(_, _)
RemoveAll(items, keys) ==
    IF keys = <<>> THEN items ELSE RemoveAll(Remove(items, Head(keys)), Tail(keys))

sort_table_in_place(tab) ==
    LET current_keys == Keys(tab.items)
        sorted_keys == SortKeys(current_keys)
    IN IF current_keys # sorted_keys
       THEN [t |-> [tab EXCEPT !.items =
                      Reinsert(RemoveAll(tab.items, current_keys), tab.items, sorted_keys)],
             n |-> 1]
       ELSE [t |-> tab, n |-> 0]

(***************************************************************************)
(* format_package_section (main.rs 459-514), on the [package] table        *)
(***************************************************************************)
desired_order == <<"name", "description", "version", "edition", "license-file",
                   "authors", "rust-version", "readme">>

\* a faulty order, the other keys first: C6_PackageOrder tells it from PackageExpectedKeys
PackageExpectedKeys_OthersFirst(tab) ==
    SelectSeq(Keys(tab.items), LAMBDA k : ~Contains(desired_order, k))
        \o SelectSeq(desired_order, LAMBDA k : ContainsKey(tab.items, k))
PackageExpectedKeys(tab) ==
    LET current_keys == Keys(tab.items)
    IN SelectSeq(desired_order, LAMBDA k : ContainsKey(tab.items, k))
         \o SelectSeq(current_keys, LAMBDA k : ~Contains(desired_order, k))

format_package_table(tab) ==
    LET current_keys == Keys(tab.items)
        expected_keys == PackageExpectedKeys(tab)
    IN IF current_keys # expected_keys
       THEN [t |-> [tab EXCEPT !.items =
                      Reinsert(RemoveAll(tab.items, current_keys), tab.items, expected_keys)],
             n |-> 1]
       ELSE [t |-> tab, n |-> 0]

\* a function's result [t, n] put back at doc[key]: [root, n]
PutTable(root, key, r) == [root |-> [root EXCEPT !.items = Insert(@, key, r.t)], n |-> r.n]
\* a step's result with the changes counted so far added
AddCount(r, n) == [r EXCEPT !.n = @ + n]

\* on the document: only when doc["package"] is a table
format_package_section(root) ==
    IF IsTableAt(root.items, "package")
    THEN PutTable(root, "package", format_package_table(Get(root.items, "package")))
    ELSE [root |-> root, n |-> 0]

(***************************************************************************)
(* sort_dependencies (main.rs 516-522)                                     *)
(***************************************************************************)
sort_dependencies(root, section) ==
    IF IsTableAt(root.items, section)
    THEN PutTable(root, section, sort_table_in_place(Get(root.items, section)))
    ELSE [root |-> root, n |-> 0]

(***************************************************************************)
(* collapse_nested_tables (main.rs 268-308)                                *)
(***************************************************************************)
\* `if collapsed > 0 { deps.set_implicit(false); changes += collapsed; }`
SetExplicit(r) == [t |-> IF r.n > 0 THEN [r.t EXCEPT !.implicit = FALSE] ELSE r.t, n |-> r.n]
CollapseDeps(tab) == SetExplicit(collapse_table_entries(tab))

\* acc = [root, n]: the document and the changes counted so far
CollapsePackage(acc) ==
    IF IsTableAt(acc.root.items, "package")
    THEN AddCount(PutTable(acc.root, "package",
                           collapse_table_entries(Get(acc.root.items, "package"))), acc.n)
    ELSE acc
CollapseSection(acc, section) ==
    IF IsTableAt(acc.root.items, section)
    THEN AddCount(PutTable(acc.root, section,
                           CollapseDeps(Get(acc.root.items, section))), acc.n)
    ELSE acc

\* a target_config whose "dependencies" is a table
HasDepsTable(config) == config.k = "table" /\ IsTableAt(config.items, "dependencies")
\* acc = [t, n]: the target table and the changes counted in it
PutConfig(acc, i, r) ==
    [t |-> [acc.t EXCEPT !.items[i].item.items = Insert(@, "dependencies", r.t)],
     n |-> acc.n + r.n]

\* for (_target_name, target_config) in target_table.iter_mut()
RECURSIVE CollapseTargets(_, _)
CollapseTargets(acc, i) ==
    IF i > Len(acc.t.items) THEN acc
    ELSE CollapseTargets(
            IF HasDepsTable(acc.t.items[i].item)
            THEN PutConfig(acc, i,
                    CollapseDeps(Get(acc.t.items[i].item.items, "dependencies")))
            ELSE acc,
            i + 1)
CollapseTarget(acc) ==
    IF IsTableAt(acc.root.items, "target")
    THEN AddCount(PutTable(acc.root, "target",
                     CollapseTargets([t |-> Get(acc.root.items, "target"), n |-> 0], 1)),
                  acc.n)
    ELSE acc

collapse_nested_tables(root) ==
    CollapseTarget(
      CollapseSection(
        CollapseSection(
          CollapseSection(CollapsePackage([root |-> root, n |-> 0]), "dependencies"),
          "dev-dependencies"),
        "build-dependencies"))

(***************************************************************************)
(* format_manifest step 5 (main.rs 235-251): target-specific dependencies  *)
(***************************************************************************)
\* collapse_table_entries, then sort_table_in_place, on one deps_table
SortCollapsed(c) == AddCount(sort_table_in_place(c.t), c.n)

RECURSIVE SortTargets(_, _)
SortTargets(acc, i) ==
    IF i > Len(acc.t.items) THEN acc
    ELSE SortTargets(
            IF HasDepsTable(acc.t.items[i].item)
            THEN PutConfig(acc, i,
                    SortCollapsed(CollapseDeps(Get(acc.t.items[i].item.items,
                                                   "dependencies"))))
            ELSE acc,
            i + 1)

sort_target_dependencies(root) ==
    IF IsTableAt(root.items, "target")
    THEN PutTable(root, "target",
                  SortTargets([t |-> Get(root.items, "target"), n |-> 0], 1))
    ELSE [root |-> root, n |-> 0]

(***************************************************************************)
(* reorder_sections (main.rs 354-457)                                      *)
(***************************************************************************)
section_order == <<"package", "lib", "bin", "test", "bench", "example", "dependencies",
                   "dev-dependencies", "build-dependencies", "target", "features">>

SectionExpectedKeys(current_keys) ==
    SelectSeq(section_order, LAMBDA k : Contains(current_keys, k))
        \o SelectSeq(current_keys, LAMBDA k : ~Contains(section_order, k))

\* what the scan reads between the brackets of a line that starts with '[':
\* the header's dotted name, or the text of an array element such as "x"
SectionName(line) == IF line.t = "mlelem" THEN <<"\"x\"">> ELSE line.path

\* HashMap::insert
MapInsert(m, key, block) ==
    [x \in DOMAIN m \cup {key} |-> IF x = key THEN block ELSE m[x]]

ScanInit == [section_strings |-> [x \in {} |-> <<>>],
             current_section |-> <<>>, current_section_name |-> <<>>]

\* the body of `for line in original_str.lines()`
ScanLine(S, line) ==
    LET flushed == IF S.current_section_name # <<>>
                   THEN MapInsert(S.section_strings, S.current_section_name,
                                  S.current_section)
                   ELSE S.section_strings
    IN IF line.t \in {"hdr", "mlelem"}
       THEN \* starts_with('[') && !starts_with("[["): a new section header
            [section_strings |-> flushed, current_section |-> <<line>>,
             current_section_name |-> SectionName(line)]
       ELSE IF line.t = "aot"
       THEN \* starts_with("[["): array-of-tables
            [section_strings |-> flushed, current_section |-> <<line>>,
             current_section_name |-> SectionName(line)]
       ELSE [S EXCEPT !.current_section = Append(@, line)]

RECURSIVE ScanLines(_, _, _)
ScanLines(S, text, i) ==
    IF i > Len(text) THEN S ELSE ScanLines(ScanLine(S, text[i]), text, i + 1)

\* the scan, with the last section flushed
SectionStrings(text) ==
    LET S == ScanLines(ScanInit, text, 1)
    IN IF S.current_section_name # <<>>
       THEN MapInsert(S.section_strings, S.current_section_name, S.current_section)
       ELSE S.section_strings

\* "Rebuild in the desired order"
RECURSIVE Rebuild(_, _, _)
Rebuild(new_content, section_strings, keys) ==
    IF keys = <<>> THEN new_content
    ELSE LET name == <<Head(keys)>>
             sep == IF new_content # <<>> /\ new_content[Len(new_content)] # Blank
                    THEN <<Blank>> ELSE <<>>
         IN Rebuild(IF name \in DOMAIN section_strings
                    THEN new_content \o sep \o section_strings[name]
                    ELSE new_content,
                    section_strings, Tail(keys))

\* `*doc = new_content.parse::<DocumentMut>().context(..)?; Ok(1)`
Reparsed(d, parsed) == [ok |-> parsed.ok, doc |-> IF parsed.ok THEN parsed ELSE d, n |-> 1]

\* [ok, doc, n]: ok = FALSE is "Failed to parse reordered document"
reorder_sections(d) ==
    IF Keys(d.root.items) = SectionExpectedKeys(Keys(d.root.items))
    THEN [ok |-> TRUE, doc |-> d, n |-> 0]
    ELSE Reparsed(d, Parse(Rebuild(<<>>, SectionStrings(Serialize(d)),
                                   SectionExpectedKeys(Keys(d.root.items)))))

(***************************************************************************)
(* format_manifest (main.rs 211-266) as one function of the text read.     *)
(*   err: "none", "parse" (Failed to parse), "reparse" (Failed to parse    *)
(*   reordered document)                                                   *)
(***************************************************************************)
\* steps 3 to 5 on acc = [root, n]
PackageStep(acc) == AddCount(format_package_section(acc.root), acc.n)
SortStep(acc, section) == AddCount(sort_dependencies(acc.root, section), acc.n)
TargetStep(acc) == AddCount(sort_target_dependencies(acc.root), acc.n)
TreeSteps(acc) ==
    TargetStep(SortStep(SortStep(SortStep(PackageStep(acc), "dependencies"),
                                 "dev-dependencies"), "build-dependencies"))

Transformed(d, acc) == [err |-> "none", changes |-> acc.n, doc |-> [d EXCEPT !.root = acc.root]]
AfterReorder(parsed, r) ==
    IF ~r.ok THEN [err |-> "reparse", changes |-> 0, doc |-> parsed]
    ELSE Transformed(r.doc, TreeSteps([root |-> r.doc.root, n |-> r.n]))
AfterCollapse(parsed, c) ==
    AfterReorder(parsed, AddCount(reorder_sections([parsed EXCEPT !.root = c.root]), c.n))
AfterParse(parsed) ==
    IF ~parsed.ok THEN [err |-> "parse", changes |-> 0, doc |-> parsed]
    ELSE AfterCollapse(parsed, collapse_nested_tables(parsed.root))
Transform(text) == AfterParse(Parse(text))

\* a faulty condition, --check forgotten: C7_WriteCondition tells it from ShouldWrite
ShouldWrite_IgnoringCheck(n, a) == n > 0 /\ ~a.dry_run
\* `if changes > 0 { if args.dry_run || args.check {..} else { fs::write } }`
ShouldWrite(n, a) == n > 0 /\ ~(a.dry_run \/ a.check)

\* std::fs::write(path, contents): the file's possible states after the call.
\* It opens with truncation and then writes: on success the file holds
\* contents; on failure it is untouched (the open failed) or holds a proper
\* prefix of contents (the write failed after the truncation).
WriteOutcomes(file, contents) ==
    { [ok |-> TRUE, file |-> [file EXCEPT !.text = contents]],
      [ok |-> FALSE, file |-> file] }
    \cup { [ok |-> FALSE, file |-> [file EXCEPT !.text = SubSeq(contents, 1, n)]] :
             n \in {0, Len(contents) - 1} \cap Nat }

(***************************************************************************)
(* The manifests the model is run on: up to MaxBlocks blocks in any order, *)
(* optionally with keys before the first header and blank lines between    *)
(* the blocks.                                                             *)
(***************************************************************************)
S1 == Scalar("1")
Blocks ==
    { << Hdr(<<"package">>), Kv("name", S1), Kv("version", S1) >>,
      << Hdr(<<"package">>), Kv("version", S1), Kv("name", S1) >>,
      << Hdr(<<"package", "metadata", "docs">>), Kv("all-features", S1) >>,
      << Hdr(<<"dependencies">>), Kv("zebra", S1), DottedKv("alpha", "version", S1) >>,
      << Hdr(<<"dependencies", "serde">>), Kv("version", S1) >>,
      << Hdr(<<"target", "x", "dependencies">>), Kv("b", S1), Kv("a", S1) >>,
      << Aot(<<"bin">>), Kv("name", Scalar("one")) >>,
      << Aot(<<"bin">>), Kv("name", Scalar("two")) >>,
      << Hdr(<<"features">>), MlOpen("default"), MlElem, MlClose >>,
      << Hdr(<<"profile", "release">>), Kv("opt-level", S1) >>,
      << Hdr(<<"lints">>), Kv("unsafe", S1) >> }

Preamble == << Kv("cargo-features", S1) >>

RECURSIVE Join(_, _)
Join(blocks, sep) ==
    IF blocks = <<>> THEN <<>>
    ELSE IF Len(blocks) = 1 THEN blocks[1]
    ELSE blocks[1] \o sep \o Join(Tail(blocks), sep)

BlockSeqs ==
    UNION { { q \in [1..n -> Blocks] : \A i, j \in 1..n : i # j => q[i] # q[j] } :
              n \in 0..MaxBlocks }

Manifests ==
    { pre \o Join(q, sep) :
        pre \in {<<>>, Preamble}, q \in BlockSeqs, sep \in {<<>>, <<Blank>>} }

File(text) == [readable |-> TRUE, text |-> text]
Unreadable == [readable |-> FALSE, text |-> <<>>]
Args == [dry_run : BOOLEAN, check : BOOLEAN, quiet : BOOLEAN]

(***************************************************************************)
(* Spec: one manifest through format_manifest, statement by statement,     *)
(* and then the tool run on it a second time.                              *)
(***************************************************************************)
NoDoc == [ok |-> FALSE, root |-> NewTable, trailing |-> 0]
NoFirst == [changes |-> 0 - 1, text |-> <<>>, pc |-> "none"]
NoTable == NewTable

Idle == /\ idx = 1 /\ total_changes = 0 /\ files_changed = 0 /\ log = <<>>
        /\ exit_code = 0 - 1 /\ table = NoTable /\ table0 = NoTable

Init ==
    /\ args \in {a \in Args : ~a.quiet}
    /\ disk \in { <<File(m)>> : m \in Manifests } \cup { <<Unreadable>> }
    /\ orig = disk
    /\ pc = "read"
    /\ doc = NoDoc /\ before = NoDoc
    /\ changes = 0 /\ ret = 0
    /\ pass = 1 /\ first = NoFirst
    /\ Idle

Frame == UNCHANGED <<args, orig, idx, total_changes, files_changed, log, exit_code,
                     table, table0>>

\* main.rs 212-219: read_to_string, parse, `let mut changes = 0`
Parsed(parsed) ==
    IF disk[1].readable /\ parsed.ok
    THEN /\ pc' = "collapse"
         /\ doc' = parsed
    ELSE /\ pc' = IF disk[1].readable THEN "parse_error" ELSE "read_error"
         /\ doc' = NoDoc
ReadManifest ==
    /\ pc = "read"
    /\ Parsed(Parse(disk[1].text))
    /\ before' = NoDoc /\ changes' = 0 /\ ret' = 0
    /\ UNCHANGED <<disk, pass, first>> /\ Frame

\* a step `changes += f(&mut doc)?` whose f cannot fail
Step(from, to, r) ==
    /\ pc = from
    /\ pc' = to
    /\ before' = doc
    /\ doc' = [doc EXCEPT !.root = r.root]
    /\ ret' = r.n
    /\ changes' = changes + r.n
    /\ UNCHANGED <<disk, pass, first>> /\ Frame

\* main.rs 222
CollapseNested == Step("collapse", "reorder", collapse_nested_tables(doc.root))

\* main.rs 225
Reordered(r) ==
    /\ pc' = IF r.ok THEN "package" ELSE "reparse_error"
    /\ doc' = r.doc
    /\ ret' = r.n
    /\ changes' = IF r.ok THEN changes + r.n ELSE changes
ReorderSections ==
    /\ pc = "reorder"
    /\ Reordered(reorder_sections(doc))
    /\ before' = doc
    /\ UNCHANGED <<disk, pass, first>> /\ Frame

\* main.rs 228
FormatPackage == Step("package", "sort_deps", format_package_section(doc.root))
\* main.rs 231-233
SortDependencies ==
    Step("sort_deps", "sort_dev", sort_dependencies(doc.root, "dependencies"))
SortDevDependencies ==
    Step("sort_dev", "sort_build", sort_dependencies(doc.root, "dev-dependencies"))
SortBuildDependencies ==
    Step("sort_build", "target", sort_dependencies(doc.root, "build-dependencies"))
\* main.rs 236-251
SortTargetDependencies == Step("target", "finish", sort_target_dependencies(doc.root))

\* main.rs 253-265
Finish ==
    /\ pc = "finish"
    /\ IF ShouldWrite(changes, args)
       THEN \E w \in WriteOutcomes(disk[1], Serialize(doc)) :
               /\ disk' = <<w.file>>
               /\ pc' = IF w.ok THEN "done" ELSE "write_error"
       ELSE /\ disk' = disk
            /\ pc' = "done"
    /\ UNCHANGED <<doc, before, changes, ret, pass, first>> /\ Frame

\* the tool is run again on the file the first run left
Rerun ==
    /\ pc = "done" /\ pass = 1
    /\ pass' = 2
    /\ first' = [changes |-> changes, text |-> disk[1].text, pc |-> pc]
    /\ pc' = "read"
    /\ UNCHANGED <<disk, doc, before, changes, ret>> /\ Frame

Next ==
    \/ ReadManifest
    \/ CollapseNested
    \/ ReorderSections
    \/ FormatPackage
    \/ SortDependencies
    \/ SortDevDependencies
    \/ SortBuildDependencies
    \/ SortTargetDependencies
    \/ Finish
    \/ Rerun

Spec == Init /\ [][Next]_vars

(***************************************************************************)
(* SpecBatch: fmt_toml (main.rs 150-209) over the manifests discovered,    *)
(* format_manifest taken as one step per manifest.                         *)
(***************************************************************************)
BatchTexts ==
    { \* already canonical
      << Hdr(<<"package">>), Kv("name", S1), Kv("version", S1) >>,
      \* target dependencies to sort
      << Hdr(<<"package">>), Kv("name", S1), Kv("version", S1),
         Hdr(<<"target", "x", "dependencies">>), Kv("b", S1), Kv("a", S1) >>,
      \* sections to reorder, dependencies to sort
      << Hdr(<<"dependencies">>), Kv("zebra", S1), Kv("alpha", S1),
         Hdr(<<"package">>), Kv("name", S1), Kv("version", S1) >>,
      \* sections to reorder around an array written over several lines
      << Hdr(<<"features">>), MlOpen("default"), MlElem, MlClose,
         Hdr(<<"package">>), Kv("name", S1) >>,
      \* [package] twice: not valid TOML
      << Hdr(<<"package">>), Kv("name", S1), Hdr(<<"package">>), Kv("version", S1) >> }

BatchFiles == { File(m) : m \in BatchTexts } \cup { Unreadable }

InitBatch ==
    /\ args \in Args
    /\ disk \in [1..NumManifests -> BatchFiles]
    /\ orig = disk
    /\ pc = "loop"
    /\ idx = 1 /\ total_changes = 0 /\ files_changed = 0 /\ log = <<>>
    /\ exit_code = 0 - 1
    /\ doc = NoDoc /\ before = NoDoc /\ changes = 0 /\ ret = 0
    /\ pass = 1 /\ first = NoFirst
    /\ table = NoTable /\ table0 = NoTable

FrameBatch == UNCHANGED <<args, orig, doc, before, changes, ret, pass, first, table, table0>>

\* `format_manifest(..)?` returned Err: main returns the error, exit code 1
Failed(res, file) ==
    /\ disk' = [disk EXCEPT ![idx] = file]
    /\ log' = Append(log, [res |-> res, changes |-> 0, writes |-> IF res = "write_error" THEN 1 ELSE 0])
    /\ pc' = "failed"
    /\ exit_code' = 1
    /\ UNCHANGED <<idx, total_changes, files_changed>>

\* format_manifest returned Ok(n): main.rs 177-180
Returned(res, file, n, writes) ==
    /\ disk' = [disk EXCEPT ![idx] = file]
    /\ log' = Append(log, [res |-> res, changes |-> n, writes |-> writes])
    /\ total_changes' = IF n > 0 THEN total_changes + n ELSE total_changes
    /\ files_changed' = IF n > 0 THEN files_changed + 1 ELSE files_changed
    /\ idx' = idx + 1
    /\ UNCHANGED <<pc, exit_code>>

\* format_manifest on disk[idx], r being the transformation of its text
FormatManifest(file, r) ==
    IF ~file.readable THEN Failed("read_error", file)
    ELSE IF r.err # "none" THEN Failed(r.err, file)
    ELSE IF ShouldWrite(r.changes, args)
    THEN \E w \in WriteOutcomes(file, Serialize(r.doc)) :
            IF w.ok THEN Returned("written", w.file, r.changes, 1)
            ELSE Failed("write_error", w.file)
    ELSE Returned(IF r.changes > 0 THEN "reported" ELSE "unchanged", file, r.changes, 0)

\* main.rs 174-181: one iteration of `for manifest_path in &crate_manifests`
FormatNext ==
    /\ pc = "loop" /\ idx <= Len(disk)
    /\ FormatManifest(disk[idx], Transform(disk[idx].text))
    /\ FrameBatch

\* a faulty policy, --quiet always succeeding: C8_ExitCode tells it from ExitCode
ExitCode_QuietSucceeds(a, total) ==
    IF a.quiet THEN 0 ELSE IF a.check /\ total > 0 THEN 1 ELSE 0
\* main.rs 184-208: the summary and the exit code
ExitCode(a, total) ==
    IF ~a.quiet
    THEN IF total > 0 /\ (a.dry_run \/ a.check) /\ a.check THEN 1 ELSE 0
    ELSE IF a.check /\ total > 0 THEN 1 ELSE 0

Summary ==
    /\ pc = "loop" /\ idx > Len(disk)
    /\ pc' = "exited"
    /\ exit_code' = ExitCode(args, total_changes)
    /\ UNCHANGED <<disk, idx, total_changes, files_changed, log>>
    /\ FrameBatch

NextBatch == FormatNext \/ Summary

SpecBatch == InitBatch /\ [][NextBatch]_vars

(***************************************************************************)
(* SpecTable: the table-level functions, each applied to a table drawn     *)
(* from a bounded set.                                                     *)
(***************************************************************************)
ValuesTable(dotted) ==
    [NewTable EXCEPT !.items = << Entry("version", ValueItem(S1), 0),
                                  Entry("features", ValueItem(Scalar("2")), 0) >>,
                     !.dotted = dotted, !.implicit = dotted, !.pos = IF dotted THEN NoPos ELSE 1]
\* a table with a child table: first, or after a value
NestedTable(valueFirst) ==
    [NewTable EXCEPT !.items =
        IF valueFirst
        THEN << Entry("version", ValueItem(S1), 0), Entry("sub", ValuesTable(FALSE), 0) >>
        ELSE << Entry("sub", ValuesTable(FALSE), 0), Entry("version", ValueItem(S1), 0) >>,
        !.implicit = ~valueFirst]
CollapseItems ==
    { ValueItem(S1),
      ValueItem(InlineTable(<< <<"version", S1>> >>)),
      ValuesTable(FALSE), ValuesTable(TRUE),
      [NewTable EXCEPT !.pos = 1],
      NestedTable(TRUE),
      ArrayOfTables(<<ValuesTable(FALSE)>>) }
CollapseKeys == {"a", "b", "c", "d"}
SortItems == { ValueItem(S1), ValuesTable(FALSE) }
SortableKeys == {"B", "a", "ab", "b", "zebra"}
PackageItems == { ValueItem(S1), NestedTable(FALSE) }
PackageKeys == {"name", "description", "version", "readme", "zebra", "license"}

\* the sequences of n distinct keys
KeySeqs(keys, n) == { q \in [1..n -> keys] : \A i, j \in 1..n : i # j => q[i] # q[j] }
TableOf(ks, its) ==
    [NewTable EXCEPT !.pos = 1, !.items = [i \in 1..Len(ks) |-> Entry(ks[i], its[i], 0)]]
\* a document whose only entry is package
PackageDoc(item) == [NewTable EXCEPT !.items = << Entry("package", item, 0) >>]

\* `table` is a table of at most MaxKeys entries with distinct keys, or such
\* a table as the [package] of a document
DrawTable(keys, items, inDoc) ==
    \E n \in 0..MaxKeys : \E ks \in KeySeqs(keys, n) : \E its \in [1..n -> items] :
        table = IF inDoc THEN PackageDoc(TableOf(ks, its)) ELSE TableOf(ks, its)

InitTable ==
    /\ \/ pc = "collapse_table_entries" /\ DrawTable(CollapseKeys, CollapseItems, FALSE)
       \/ pc = "sort_table_in_place" /\ DrawTable(SortableKeys, SortItems, FALSE)
       \/ pc = "format_package_section" /\ DrawTable(PackageKeys, PackageItems, TRUE)
       \* a package that is not a table, and no package at all
       \/ pc = "format_package_section" /\ table \in {PackageDoc(ValueItem(S1)), NewTable}
    /\ table0 = table
    /\ ret = 0
    /\ args = [dry_run |-> FALSE, check |-> FALSE, quiet |-> FALSE]
    /\ disk = <<>> /\ orig = <<>>
    /\ doc = NoDoc /\ before = NoDoc /\ changes = 0
    /\ pass = 1 /\ first = NoFirst
    /\ idx = 1 /\ total_changes = 0 /\ files_changed = 0 /\ log = <<>>
    /\ exit_code = 0 - 1

FrameTable == UNCHANGED <<args, disk, orig, doc, before, changes, pass, first, idx,
                          total_changes, files_changed, log, exit_code, table0>>

\* a call of one function on `table`: r its result, t the table it leaves
Apply(fn, done, r, t) ==
    /\ pc = fn
    /\ pc' = done
    /\ table' = t
    /\ ret' = r.n
    /\ FrameTable

CallCollapse ==
    Apply("collapse_table_entries", "collapsed", collapse_table_entries(table),
          collapse_table_entries(table).t)
CallSort ==
    Apply("sort_table_in_place", "sorted", sort_table_in_place(table),
          sort_table_in_place(table).t)
CallFormatPackage ==
    Apply("format_package_section", "formatted", format_package_section(table),
          format_package_section(table).root)

NextTable == CallCollapse \/ CallSort \/ CallFormatPackage

SpecTable == InitTable /\ [][NextTable]_vars

(***************************************************************************)
(* Properties.                                                             *)
(***************************************************************************)
\* every key of a document with its value, each table and array entry too
RECURSIVE Leaves(_, _)
Leaves(item, path) ==
    CASE item.k = "value" -> { <<path, item.v>> }
      [] item.k = "table" ->
            { <<path, InlineTable(<<>>)>> } \cup
            UNION { Leaves(item.items[i].item, Append(path, item.items[i].key)) :
                      i \in 1..Len(item.items) }
      [] item.k = "aot" ->
            UNION { Leaves(item.tabs[i], Append(path, <<"[1]", "[2]", "[3]", "[4]", "[5]">>[i])) :
                      i \in 1..Len(item.tabs) }
      [] OTHER -> {}

\* C1 (idempotence of format_manifest): when the tool is run in apply mode on
\* the file its own successful first run left, the second run counts 0
\* changes and leaves the text as it was.
C1_Idempotent ==
    (pass = 2 /\ pc = "done" /\ ~args.dry_run /\ ~args.check)
        => (changes = 0 /\ disk[1].text = first.text)

\* C2 (no key dropped by reorder_sections): whenever reorder_sections
\* reassembles the text, the re-parsed document holds every key of the
\* document it started from, sub-table headers included, with the same value,
\* and no other.
C2_NoKeyLost ==
    (pc = "package" /\ ret = 1) => Leaves(doc.root, <<>>) = Leaves(before.root, <<>>)

\* C3 (section ordering): after reorder_sections the root sections are the
\* canonical ones present, in canonical order, then the others in their
\* original order; it returns 0 and leaves the document alone when the order
\* already matched, and 1 otherwise.
C3_Canonical == <<"package", "lib", "bin", "test", "bench", "example", "dependencies",
                  "dev-dependencies", "build-dependencies", "target", "features">>
C3_Expected(keys) ==
    SelectSeq(C3_Canonical, LAMBDA k : Contains(keys, k))
        \o SelectSeq(keys, LAMBDA k : ~Contains(C3_Canonical, k))
C3_SectionOrder ==
    (pc = "package") =>
        /\ Keys(doc.root.items) = C3_Expected(Keys(before.root.items))
        /\ ret = IF Keys(before.root.items) = C3_Expected(Keys(before.root.items)) THEN 0 ELSE 1
        /\ ret = 0 => doc = before

\* C9 (array-of-tables accumulation): when reorder_sections reassembles the
\* text, an array of tables whose [[key]] entries follow one another in the
\* text still has every one of its entries.
C9_Consecutive(tabs) == \A i \in 1..(Len(tabs) - 1) : tabs[i + 1].pos = tabs[i].pos + 1
C9_ArrayEntriesKept ==
    (pc = "package" /\ ret = 1) =>
        \A i \in 1..Len(before.root.items) :
            (/\ before.root.items[i].item.k = "aot"
             /\ C9_Consecutive(before.root.items[i].item.tabs))
            => /\ Get(doc.root.items, before.root.items[i].key).k = "aot"
               /\ Len(Get(doc.root.items, before.root.items[i].key).tabs)
                    = Len(before.root.items[i].item.tabs)

\* C4 (collapse safety): collapse_table_entries replaces an entry by an inline
\* table exactly when it is a non-dotted table whose children are all values;
\* the inline table has the same key/value pairs in the same order; every
\* other entry is untouched; the count returned is the number replaced.
C4_Collapsible(item) ==
    /\ item.k = "table"
    /\ ~item.dotted
    /\ \A j \in 1..Len(item.items) : item.items[j].item.k = "value"
C4_SamePairs(new, old) ==
    /\ new.k = "value"
    /\ new.v.vk = "inline"
    /\ Len(new.v.kvs) = Len(old.items)
    /\ \A j \in 1..Len(old.items) : new.v.kvs[j] = <<old.items[j].key, old.items[j].item.v>>
C4_CollapseSafety ==
    (pc = "collapsed") =>
        /\ Keys(table.items) = Keys(table0.items)
        /\ \A i \in 1..Len(table0.items) :
               IF C4_Collapsible(table0.items[i].item)
               THEN C4_SamePairs(table.items[i].item, table0.items[i].item)
               ELSE table.items[i].item = table0.items[i].item
        /\ ret = Cardinality({ i \in 1..Len(table0.items) : C4_Collapsible(table0.items[i].item) })
C4_Witness ==
    /\ pc = "collapsed"
    /\ ret = 2
    /\ Len(table0.items) = 3
    /\ \E i \in 1..3 : table0.items[i].item = ValuesTable(TRUE)
    /\ \E i \in 1..3 : table0.items[i].item = ValuesTable(FALSE)
    /\ \E i \in 1..3 : table0.items[i].item = [NewTable EXCEPT !.pos = 1]

\* C5 (dependency sort): sort_table_in_place leaves the table's keys in
\* ascending byte-wise order with the same keys and items, and returns 0
\* (table untouched) when they were already sorted and 1 otherwise.
C5_ByteLess(x, y) ==
    \E i \in 1..(Len(x) + 1) :
        /\ \A j \in 1..(i - 1) : j <= Len(y) /\ x[j] = y[j]
        /\ \/ i = Len(x) + 1 /\ i <= Len(y)
           \/ i <= Len(x) /\ i <= Len(y) /\ x[i] < y[i]
C5_Ascending(keys) ==
    \A i, j \in 1..Len(keys) : i < j => C5_ByteLess(Bytes(keys[i]), Bytes(keys[j]))
C5_SortedTable ==
    (pc = "sorted") =>
        /\ C5_Ascending(Keys(table.items))
        /\ Len(table.items) = Len(table0.items)
        /\ \A i \in 1..Len(table0.items) :
               Get(table.items, table0.items[i].key) = table0.items[i].item
        /\ ret = IF C5_Ascending(Keys(table0.items)) THEN 0 ELSE 1
        /\ ret = 0 => table = table0
C5_Witness ==
    /\ pc = "sorted"
    /\ ret = 1
    /\ Keys(table0.items) = <<"b", "ab", "B">>
    /\ Keys(table.items) = <<"B", "ab", "b">>

\* C6 (package field ordering): format_package_section leaves [package] with
\* name, description, version, edition, license-file, authors, rust-version,
\* readme (those present) first and in that order, then the other keys in
\* their original relative order, items unchanged; it returns 0 when there is
\* no [package] table or the order already matched, and 1 otherwise.
C6_Canonical == <<"name", "description", "version", "edition", "license-file",
                  "authors", "rust-version", "readme">>
C6_Rank(key) ==
    IF \E r \in 1..Len(C6_Canonical) : C6_Canonical[r] = key
    THEN CHOOSE r \in 1..Len(C6_Canonical) : C6_Canonical[r] = key
    ELSE Len(C6_Canonical) + 1
C6_Ordered(new, old) ==
    \A i, j \in 1..Len(new) :
        i < j =>
            /\ C6_Rank(new[i].key) <= C6_Rank(new[j].key)
            /\ C6_Rank(new[i].key) = C6_Rank(new[j].key)
                 => IndexOf(old, new[i].key) < IndexOf(old, new[j].key)
C6_PackageOrder ==
    (pc = "formatted") =>
        IF Get(table0.items, "package").k = "table"
        THEN /\ Keys(table.items) = <<"package">>
             /\ Get(table.items, "package").k = "table"
             /\ Len(Get(table.items, "package").items) = Len(Get(table0.items, "package").items)
             /\ \A i \in 1..Len(Get(table0.items, "package").items) :
                    Get(Get(table.items, "package").items,
                        Get(table0.items, "package").items[i].key)
                      = Get(table0.items, "package").items[i].item
             /\ C6_Ordered(Get(table.items, "package").items, Get(table0.items, "package").items)
             /\ ret = IF C6_Ordered(Get(table0.items, "package").items,
                                    Get(table0.items, "package").items) THEN 0 ELSE 1
             /\ ret = 0 => table = table0
        ELSE ret = 0 /\ table = table0
C6_Witness ==
    /\ pc = "formatted"
    /\ ret = 1
    /\ Keys(Get(table0.items, "package").items) = <<"zebra", "version", "name">>
    /\ Keys(Get(table.items, "package").items) = <<"name", "version", "zebra">>

\* C7 (write condition): format_manifest calls fs::write on a manifest exactly
\* when its pipeline ended without error with a change count above 0 and
\* neither --dry-run nor --check was given; a manifest it does not write stays
\* as it was on disk; one it has written holds the serialization of the
\* transformed document.
C7_MustWrite(file) ==
    /\ file.readable
    /\ Transform(file.text).err = "none"
    /\ Transform(file.text).changes > 0
    /\ ~args.dry_run
    /\ ~args.check
C7_WriteCondition ==
    \A i \in 1..Len(log) :
        /\ log[i].writes = (IF C7_MustWrite(orig[i]) THEN 1 ELSE 0)
        /\ log[i].writes = 0 => disk[i] = orig[i]
        /\ log[i].res = "written" => disk[i].text = Serialize(Transform(orig[i].text).doc)
C7_Witness ==
    /\ Len(log) >= 2
    /\ log[1].res = "written" /\ disk[1] # orig[1]
    /\ log[2].res = "parse" /\ disk[2] = orig[2]

\* C8 (exit code): when every manifest was processed without error, the exit
\* code is non-zero exactly when --check was given and some manifest had a
\* change count above 0, whatever --quiet and --dry-run are.
C8_ExitCode ==
    (pc = "exited") =>
        (exit_code # 0 <=> (args.check /\ \E i \in 1..Len(log) : log[i].changes > 0))
C8_Witness ==
    /\ pc = "exited"
    /\ exit_code = 1
    /\ args.quiet /\ args.dry_run /\ args.check
    /\ \A i \in 1..Len(disk) : disk[i] = orig[i]

\* C10 (batch sequencing): the manifests are processed one after another in
\* discovery order; when one fails the run ends there, the manifests before
\* it keep what was written to them, and the failing manifest and every later
\* one are as they were on disk.
C10_BatchSequencing ==
    /\ Len(log) = (IF pc = "failed" THEN idx ELSE idx - 1)
    /\ \A i \in 1..(idx - 1) :
           log[i].res = "written" => disk[i].text = Serialize(Transform(orig[i].text).doc)
    /\ \A i \in idx..Len(disk) : disk[i] = orig[i]
====
